---------------------------- MODULE Spec2Model ----------------------------
(***************************************************************************)
(* Model of lab4.py: BankVisit (a record validated on attribute            *)
(* assignment) and VisitCollection (an ordered store with a shared         *)
(* iteration cursor, CSV load and CSV save).                               *)
(*                                                                         *)
(* Text is a sequence of one-character strings, so that int(), strptime,   *)
(* strftime and the csv layer are computed character by character.         *)
(* Python values are tagged records: str, int, None, datetime, BankVisit.  *)
(***************************************************************************)
EXTENDS Integers, Sequences, FiniteSets, TLC

(***************************************************************************)
(* Bounds of the model.                                                    *)
(***************************************************************************)
\* rows of the CSV file the session starts with
MaxRows == 2
\* records the store holds before add is no longer exercised
MaxVisits == 3
\* records one traversal is followed for (a nested traversal never ends)
MaxYield == 4

(***************************************************************************)
(* Python values.                                                          *)
(***************************************************************************)
PyStr(s) == [t |-> "str", s |-> s]

PyInt(n) == [t |-> "int", n |-> n]

PyNone == [t |-> "none"]

PyDateTime(y, mo, d, h, mi, sec) ==
    [t |-> "datetime", y |-> y, mo |-> mo, d |-> d, h |-> h, mi |-> mi, sec |-> sec]

(***************************************************************************)
(* Characters.                                                             *)
(***************************************************************************)
Digits == {"0", "1", "2", "3", "4", "5", "6", "7", "8", "9"}

\* The regex class \s of a str pattern (str.isspace()), by which strptime
\* matches the space of its format: tab, line feed, vertical tab, form feed,
\* carriage return, U+001C..U+001F, space, U+0085 and U+00A0.  The whitespace
\* above U+00FF (U+1680, U+2000..U+200A, U+2028, U+2029, U+202F, U+205F,
\* U+3000) is in the class too; a string of this module cannot hold it.
Whitespace ==
    {" ", "\t", "\n", "\r", "\f", "", "", "", "", "",
     "", " "}

\* The whitespace int() strips from a str: non-ASCII whitespace is first
\* turned into a space, then the ASCII whitespace (tab, line feed, vertical
\* tab, form feed, carriage return, space) is stripped, so that U+001C..U+001F
\* stay and make the literal invalid.
IntWhitespace == Whitespace \ {"", "", "", ""}

DigitVal(c) ==
    CASE c = "0" -> 0 [] c = "1" -> 1 [] c = "2" -> 2 [] c = "3" -> 3
      [] c = "4" -> 4 [] c = "5" -> 5 [] c = "6" -> 6 [] c = "7" -> 7
      [] c = "8" -> 8 [] c = "9" -> 9

DigitChar(n) ==
    CASE n = 0 -> "0" [] n = 1 -> "1" [] n = 2 -> "2" [] n = 3 -> "3"
      [] n = 4 -> "4" [] n = 5 -> "5" [] n = 6 -> "6" [] n = 7 -> "7"
      [] n = 8 -> "8" [] n = 9 -> "9"

\* str.strip() as int() applies it to its argument
RECURSIVE LStrip(_)
LStrip(s) == IF s # <<>> /\ Head(s) \in IntWhitespace THEN LStrip(Tail(s)) ELSE s

RECURSIVE RStrip(_)
RStrip(s) ==
    IF s # <<>> /\ s[Len(s)] \in IntWhitespace
    THEN RStrip(SubSeq(s, 1, Len(s) - 1))
    ELSE s

Strip(s) == RStrip(LStrip(s))

\* value of a run of digits and single underscores, read left to right
RECURSIVE DigitsValue(_, _)
DigitsValue(s, acc) ==
    IF s = <<>> THEN acc
    ELSE IF Head(s) = "_" THEN DigitsValue(Tail(s), acc)
    ELSE DigitsValue(Tail(s), acc * 10 + DigitVal(Head(s)))

\* the digit part of an int() literal: digits, with single underscores between
IntBodyOk(b) ==
    /\ Len(b) >= 1
    /\ b[1] \in Digits
    /\ b[Len(b)] \in Digits
    /\ \A i \in 1..Len(b) : b[i] \in Digits \cup {"_"}
    /\ \A i \in 1..(Len(b) - 1) : ~(b[i] = "_" /\ b[i + 1] = "_")

\* int(text), base 10: [ok, n]; ok = FALSE is ValueError
ParseInt(s) ==
    LET t == Strip(s)
        signed == t # <<>> /\ t[1] \in {"+", "-"}
        body == IF signed THEN Tail(t) ELSE t
    IN  IF IntBodyOk(body)
        THEN [ok |-> TRUE,
              n |-> IF signed /\ t[1] = "-"
                    THEN 0 - DigitsValue(body, 0)
                    ELSE DigitsValue(body, 0)]
        ELSE [ok |-> FALSE, n |-> 0]

\* str(n) for n >= 0
RECURSIVE NatToText(_)
NatToText(n) ==
    IF n < 10 THEN <<DigitChar(n)>>
    ELSE NatToText(n \div 10) \o <<DigitChar(n % 10)>>

\* str(n)
IntToText(n) == IF n < 0 THEN <<"-">> \o NatToText(0 - n) ELSE NatToText(n)

\* a number as strftime's %m %d %H %M render it: two digits, zero-padded
Pad2(n) == <<DigitChar(n \div 10), DigitChar(n % 10)>>

\* a year as datetime.__str__ renders it: four digits, zero-padded
Pad4(n) ==
    <<DigitChar(n \div 1000), DigitChar((n \div 100) % 10),
      DigitChar((n \div 10) % 10), DigitChar(n % 10)>>

(***************************************************************************)
(* datetime.strptime(text, '%Y-%m-%d %H:%M') and strftime.                 *)
(***************************************************************************)
\* number of digit characters of s from position i on
RECURSIVE DigitRun(_, _)
DigitRun(s, i) ==
    IF i <= Len(s) /\ s[i] \in Digits THEN 1 + DigitRun(s, i + 1) ELSE 0

\* number of whitespace characters of s from position i on
RECURSIVE SpaceRun(_, _)
SpaceRun(s, i) ==
    IF i <= Len(s) /\ s[i] \in Whitespace THEN 1 + SpaceRun(s, i + 1) ELSE 0

\* value of the k digits of s that start at position i
NumAt(s, i, k) == DigitsValue(SubSeq(s, i, i + k - 1), 0)

IsLeap(y) == (y % 4 = 0 /\ y % 100 # 0) \/ y % 400 = 0

DaysInMonth(y, m) ==
    IF m = 2 THEN (IF IsLeap(y) THEN 29 ELSE 28)
    ELSE IF m \in {4, 6, 9, 11} THEN 30 ELSE 31

\* _parse_date: [ok, dt]; ok = FALSE is ValueError.  The format's directives
\* match as _strptime's regular expression does: %Y four digits; %m, %d, %H,
\* %M one or two digits in range (%d also a space and one digit 1-9); the
\* format's space one or more whitespace characters; nothing may remain.
\* Then datetime() refuses year 0 and a day the month does not have.
parse_date(s) ==
    LET n == Len(s)
        bad == [ok |-> FALSE, dt |-> PyNone]
        yLen == DigitRun(s, 1)
        mAt == 6
        mLen == DigitRun(s, mAt)
        dAt == mAt + mLen + 1
        dPad == IF dAt + 1 <= n /\ s[dAt] = " " /\ s[dAt + 1] \in Digits \ {"0"}
                THEN 1 ELSE 0
        dLen == IF dPad = 1 THEN 1 ELSE DigitRun(s, dAt)
        wAt == dAt + dPad + dLen
        wLen == SpaceRun(s, wAt)
        hAt == wAt + wLen
        hLen == DigitRun(s, hAt)
        miAt == hAt + hLen + 1
        miLen == DigitRun(s, miAt)
    IN  IF ~(yLen = 4 /\ n >= 5 /\ s[5] = "-") THEN bad
        ELSE IF ~(mLen \in 1..2 /\ mAt + mLen <= n /\ s[mAt + mLen] = "-") THEN bad
        ELSE IF ~(dLen \in 1..2 /\ wLen >= 1) THEN bad
        ELSE IF ~(hLen \in 1..2 /\ hAt + hLen <= n /\ s[hAt + hLen] = ":") THEN bad
        ELSE IF ~(miLen \in 1..2 /\ miAt + miLen = n + 1) THEN bad
        ELSE LET y == NumAt(s, 1, 4)
                 mo == NumAt(s, mAt, mLen)
                 d == NumAt(s, dAt + dPad, dLen)
                 h == NumAt(s, hAt, hLen)
                 mi == NumAt(s, miAt, miLen)
             IN  IF /\ y >= 1
                    /\ mo \in 1..12
                    /\ d >= 1 /\ d <= DaysInMonth(y, mo)
                    /\ h \in 0..23
                    /\ mi \in 0..59
                 THEN [ok |-> TRUE, dt |-> PyDateTime(y, mo, d, h, mi, 0)]
                 ELSE bad

\* date.strftime('%Y-%m-%d %H:%M') of a datetime: the C library's %Y does not
\* pad the year (Python 3.11 on glibc: year 5 renders "5"), the other
\* directives are two digits; the seconds are dropped.
FormatDate(dt) ==
    IntToText(dt.y) \o <<"-">> \o Pad2(dt.mo) \o <<"-">> \o Pad2(dt.d)
        \o <<" ">> \o Pad2(dt.h) \o <<":">> \o Pad2(dt.mi)

(***************************************************************************)
(* BankVisit.                                                              *)
(***************************************************************************)
\* an attribute that no assignment has set yet
Unset == [t |-> "unset"]

\* the object __init__ receives, before its four assignments
NewBankVisit ==
    [t |-> "BankVisit", vid |-> Unset, full_name |-> Unset,
     date |-> Unset, visit_type |-> Unset]

\* the outcome of a conversion r = [ok, ...] whose value is v
Converted(r, v) ==
    IF r.ok THEN [err |-> "none", value |-> v]
    ELSE [err |-> "ValueError", value |-> PyNone]

\* int(value): text is parsed, an int is itself, anything else is a TypeError
IntOfText(r) == Converted(r, PyInt(r.n))

IntOf(value) ==
    IF value.t = "str" THEN IntOfText(ParseInt(value.s))
    ELSE IF value.t = "int" THEN [err |-> "none", value |-> value]
    ELSE [err |-> "TypeError", value |-> PyNone]

DateOfText(r) == Converted(r, r.dt)

\* the value __setattr__ stores for name: vid goes through int(), a date
\* given as text through _parse_date, every other value is kept as given
Validated(name, value) ==
    IF name = "vid" THEN IntOf(value)
    ELSE IF name = "date" /\ value.t = "str" THEN DateOfText(parse_date(value.s))
    ELSE [err |-> "none", value |-> value]

\* super().__setattr__(name, c.value), unless the validation raised
Stored(obj, name, c) ==
    IF c.err = "none"
    THEN [err |-> "none", obj |-> [obj EXCEPT ![name] = c.value]]
    ELSE [err |-> c.err, obj |-> obj]

\* __setattr__(self, name, value): [err, obj]
setattr(obj, name, value) == Stored(obj, name, Validated(name, value))

\* __init__ after an assignment with outcome a: the next assignment, or the
\* end of the construction when a raised
InitType(c) ==
    IF c.err # "none" THEN [err |-> c.err, obj |-> PyNone]
    ELSE [err |-> "none", obj |-> c.obj]

InitDate(b, visit_type) ==
    IF b.err # "none" THEN [err |-> b.err, obj |-> PyNone]
    ELSE InitType(setattr(b.obj, "visit_type", visit_type))

InitName(a, date, visit_type) ==
    IF a.err # "none" THEN [err |-> a.err, obj |-> PyNone]
    ELSE InitDate(setattr(a.obj, "date", date), visit_type)

InitVid(a, full_name, date, visit_type) ==
    IF a.err # "none" THEN [err |-> a.err, obj |-> PyNone]
    ELSE InitName(setattr(a.obj, "full_name", full_name), date, visit_type)

\* BankVisit(vid, full_name, date, visit_type): the four assignments of
\* __init__ in order; the first that raises ends the construction
BankVisit(vid, full_name, date, visit_type) ==
    InitVid(setattr(NewBankVisit, "vid", vid), full_name, date, visit_type)

(***************************************************************************)
(* VisitCollection: the list _visits and the cursor _current.  Positions   *)
(* of _visits are 1-based here, Python's index i is position i + 1.        *)
(***************************************************************************)
\* getitem with the index taken as a 1-based position
getitem_one_based(visits, index) ==
    IF index >= 1 /\ index <= Len(visits)
    THEN [err |-> "none", value |-> visits[index]]
    ELSE [err |-> "IndexError", value |-> PyNone]

\* __getitem__(index) for an int index, as list indexing: [err, value]
getitem(visits, index) ==
    LET n == Len(visits)
    IN  IF index >= 0 /\ index < n
        THEN [err |-> "none", value |-> visits[index + 1]]
        ELSE IF index < 0 /\ index >= 0 - n
        THEN [err |-> "none", value |-> visits[n + index + 1]]
        ELSE [err |-> "IndexError", value |-> PyNone]

\* __next__: [err, value, current]; err = "StopIteration" at the end, where
\* the cursor goes back to 0
next(visits, current) ==
    IF current < Len(visits)
    THEN [err |-> "none", value |-> visits[current + 1], current |-> current + 1]
    ELSE [err |-> "StopIteration", value |-> PyNone, current |-> 0]

\* add putting the record first
add_front(visits, visit) ==
    IF visit.t # "BankVisit"
    THEN [err |-> "TypeError", visits |-> visits]
    ELSE [err |-> "none", visits |-> <<visit>> \o visits]

\* add(visit): [err, visits]
add(visits, visit) ==
    IF visit.t # "BankVisit"
    THEN [err |-> "TypeError", visits |-> visits]
    ELSE [err |-> "none", visits |-> Append(visits, visit)]

(***************************************************************************)
(* The CSV file.  A file is [exists, header, rows]: header is "absent" (an *)
(* empty file), "ok" (the four labels save_csv writes) or "other" (a first *)
(* line without those labels); rows are the data rows, each the sequence   *)
(* of its fields' text.  The csv module's quoting returns every field as   *)
(* it was written, so it is not spelled out; what the two open() calls do  *)
(* to line ends is.                                                        *)
(***************************************************************************)
NoFile == [exists |-> FALSE, header |-> "absent", rows |-> <<>>]

EmptyFile == [exists |-> TRUE, header |-> "absent", rows |-> <<>>]

\* open(filename, 'r') without newline='': "\r\n" and "\r" are read as "\n",
\* inside quoted fields too
RECURSIVE ReadNewlines(_)
ReadNewlines(s) ==
    IF s = <<>> THEN <<>>
    ELSE IF Head(s) = "\r"
    THEN IF Len(s) >= 2 /\ s[2] = "\n"
         THEN <<"\n">> \o ReadNewlines(Tail(Tail(s)))
         ELSE <<"\n">> \o ReadNewlines(Tail(s))
    ELSE <<Head(s)>> \o ReadNewlines(Tail(s))

\* csv.DictReader's value for column i of a row: the field's text, or None
\* (restval) when the row is shorter; fields past the fourth are not read
DictField(row, i) ==
    IF i <= Len(row) THEN PyStr(ReadNewlines(row[i])) ELSE PyNone

\* the BankVisit(...) call of from_csv's loop for one row; with other labels
\* in the header the lookup of the first label raises KeyError
RowVisit(header, row) ==
    IF header = "ok"
    THEN BankVisit(DictField(row, 1), DictField(row, 2),
                   DictField(row, 3), DictField(row, 4))
    ELSE [err |-> "KeyError", obj |-> PyNone]

\* from_csv's loop over the rows still to read: [err, visits, skipped].
\* DictReader passes over rows without fields; ValueError and KeyError are
\* printed and the row is skipped; any other error escapes.
RECURSIVE LoadRows(_, _, _, _)
LoadRow(header, rows, visits, skipped, v) ==
    IF v.err = "none"
    THEN LoadRows(header, Tail(rows), add(visits, v.obj).visits, skipped)
    ELSE IF v.err \in {"ValueError", "KeyError"}
    THEN LoadRows(header, Tail(rows), visits, Append(skipped, Head(rows)))
    ELSE [err |-> v.err, visits |-> visits, skipped |-> skipped]

LoadRows(header, rows, visits, skipped) ==
    IF rows = <<>> THEN [err |-> "none", visits |-> visits, skipped |-> skipped]
    ELSE IF Head(rows) = <<>> THEN LoadRows(header, Tail(rows), visits, skipped)
    ELSE LoadRow(header, rows, visits, skipped, RowVisit(header, Head(rows)))

\* the store from_csv returns after its loop ended with r
Loaded(r) ==
    [err |-> r.err, visits |-> r.visits, current |-> 0,
     notFound |-> FALSE, skipped |-> r.skipped]

\* from_csv without its except FileNotFoundError clause
from_csv_raising(f) ==
    IF ~f.exists
    THEN [err |-> "FileNotFoundError", visits |-> <<>>, current |-> 0,
          notFound |-> FALSE, skipped |-> <<>>]
    ELSE IF f.header = "absent"
    THEN [err |-> "none", visits |-> <<>>, current |-> 0,
          notFound |-> FALSE, skipped |-> <<>>]
    ELSE Loaded(LoadRows(f.header, f.rows, <<>>, <<>>))

\* from_csv(filename): [err, visits, current, notFound, skipped]; notFound and
\* skipped are what it prints
from_csv(f) ==
    IF ~f.exists
    THEN [err |-> "none", visits |-> <<>>, current |-> 0,
          notFound |-> TRUE, skipped |-> <<>>]
    ELSE IF f.header = "absent"
    THEN [err |-> "none", visits |-> <<>>, current |-> 0,
          notFound |-> FALSE, skipped |-> <<>>]
    ELSE Loaded(LoadRows(f.header, f.rows, <<>>, <<>>))

\* str(datetime): the year padded to four digits, the seconds included
DateTimeToText(dt) ==
    Pad4(dt.y) \o <<"-">> \o Pad2(dt.mo) \o <<"-">> \o Pad2(dt.d) \o <<" ">>
        \o Pad2(dt.h) \o <<":">> \o Pad2(dt.mi) \o <<":">> \o Pad2(dt.sec)

\* csv.writer's text for a field: None is empty, text is itself, any other
\* value is its str()
WriteField(v) ==
    IF v.t = "none" THEN <<>>
    ELSE IF v.t = "str" THEN v.s
    ELSE IF v.t = "int" THEN IntToText(v.n)
    ELSE DateTimeToText(v)

\* the list save_csv builds for one visit: [err, row]; a date that is no
\* datetime has no strftime (AttributeError)
FormatRow(visit) ==
    IF visit.date.t # "datetime" THEN [err |-> "AttributeError", row |-> <<>>]
    ELSE [err |-> "none",
          row |-> <<WriteField(visit.vid), WriteField(visit.full_name),
                    FormatDate(visit.date), WriteField(visit.visit_type)>>]

\* save_csv's loop from record i on, rows being those written so far; the
\* write of record failRow fails with an I/O error (0: none does)
RECURSIVE WriteRows(_, _, _, _)
WriteRow(visits, i, rows, failRow, r) ==
    IF r.err # "none" THEN [err |-> r.err, rows |-> rows]
    ELSE IF i = failRow THEN [err |-> "OSError", rows |-> rows]
    ELSE WriteRows(visits, i + 1, Append(rows, r.row), failRow)

WriteRows(visits, i, rows, failRow) ==
    IF i > Len(visits) THEN [err |-> "none", rows |-> rows]
    ELSE WriteRow(visits, i, rows, failRow, FormatRow(visits[i]))

\* the file save_csv leaves after its loop ended with w
Written(w) ==
    [err |-> w.err, file |-> [exists |-> TRUE, header |-> "ok", rows |-> w.rows]]

\* save_csv(filename) with the I/O fault ioFail: 0 none, 1 open fails,
\* 2 the header's write fails, 2 + i the write of record i fails.
\* [err, file]: open(.., 'w') empties the file, what was written before an
\* error stays in it.
save_csv(visits, f, ioFail) ==
    IF ioFail = 1 THEN [err |-> "OSError", file |-> f]
    ELSE IF ioFail = 2 THEN [err |-> "OSError", file |-> EmptyFile]
    ELSE Written(WriteRows(visits, 1, <<>>, IF ioFail > 2 THEN ioFail - 2 ELSE 0))

(***************************************************************************)
(* Inputs: the text and the values the callers pass.                       *)
(***************************************************************************)
\* "2024-01-05 09:00"
DateCanonical ==
    <<"2", "0", "2", "4", "-", "0", "1", "-", "0", "5", " ", "0", "9", ":", "0", "0">>

\* "2024-1-5 9:0": strptime reads it as the date above
DateUnpadded == <<"2", "0", "2", "4", "-", "1", "-", "5", " ", "9", ":", "0">>

\* "0005-03-01 10:30": a year below 1000
DateEarly ==
    <<"0", "0", "0", "5", "-", "0", "3", "-", "0", "1", " ", "1", "0", ":", "3", "0">>

\* "05.01.2024": not in the format
DateDotted == <<"0", "5", ".", "0", "1", ".", "2", "0", "2", "4">>

\* the data rows a file is made of
RowPool ==
    { <<<<"0", "0", "7">>, <<"B">>, DateUnpadded, <<"L">>>>,
      <<<<"x">>, <<"A">>, DateCanonical, <<"D">>>>,
      <<<<"2">>, <<"A">>, DateDotted, <<"D">>>>,
      <<<<"3">>, <<"A">>, DateCanonical>>,
      <<<<"4">>, <<"A">>>>,
      <<<<"5">>, <<"A">>, DateEarly, <<"D">>>>,
      <<>> }

\* rows every field of which from_csv accepts and save_csv writes back
PlainRowPool ==
    { <<<<"1">>, <<"A">>, DateCanonical, <<"D">>>>,
      <<<<"0", "0", "7">>, <<"B">>, DateUnpadded, <<"L">>>> }

SeqsUpTo(S, n) == UNION {[1..k -> S] : k \in 0..n}

\* the files a session may find at its path
Files ==
    {NoFile, EmptyFile}
        \cup {[exists |-> TRUE, header |-> "ok", rows |-> r] :
                 r \in SeqsUpTo(RowPool, MaxRows)}
        \cup {[exists |-> TRUE, header |-> "other", rows |-> r] :
                 r \in SeqsUpTo(PlainRowPool, 1)}

\* files of one well-formed row, repeated
PlainFiles ==
    {NoFile}
        \cup {[exists |-> TRUE, header |-> "ok", rows |-> r] :
                 r \in SeqsUpTo({<<<<"0", "0", "7">>, <<"B">>, DateUnpadded, <<"L">>>>},
                                MaxRows)}

\* arguments of BankVisit(...) and of later assignments
VidPool == {PyStr(<<" ", "8">>), PyStr(<<"x">>), PyNone}

NamePool == {PyStr(<<"a", "\r", "b">>)}

DatePool == {PyStr(DateCanonical), PyStr(DateDotted), PyDateTime(2024, 1, 5, 9, 0, 30)}

TypePool == {PyStr(<<"D">>)}

AssignPool == { <<"vid", PyStr(<<"x">>)>>, <<"date", PyNone>> }

\* arguments of add that are no BankVisit
NonVisitPool == {PyNone, PyStr(<<"A">>)}

\* the traversals a caller has in progress (loops, possibly nested)
Travs == {1, 2}

(***************************************************************************)
(* The session: a caller that loads the store from the file, then          *)
(* constructs records, adds them, reads positions, traverses and saves.    *)
(***************************************************************************)
VARIABLES
    file,        \* the file at the session's path
    pc,          \* "start" before from_csv, "ready" with a store, "raised"
    visits,      \* VisitCollection._visits
    current,     \* VisitCollection._current
    rec,         \* the BankVisit the caller holds, PyNone when none
    printed,     \* what from_csv printed: [notFound, skipped]
    trav,        \* per traversal: [st, fresh, got, alone, complete]
    loaded,      \* history: the records from_csv returned
    added,       \* history: the records add accepted, in call order
    op,          \* history: the last operation on the store
    result,      \* history: its outcome [err, value, arg]
    pre,         \* history: [visits, current] when it was called
    saveFailed   \* history: some save_csv has raised

vars ==
    <<file, pc, visits, current, rec, printed, trav, loaded, added, op, result,
      pre, saveFailed>>

Idle ==
    [st |-> "idle", fresh |-> TRUE, got |-> <<>>, alone |-> TRUE, complete |-> FALSE]

\* the positions a traversal of n records is to be given, in order
Positions(n) == [i \in 1..n |-> i]

Outcome(err, value, arg) == [err |-> err, value |-> value, arg |-> arg]

Snapshot == [visits |-> visits, current |-> current]

InitWith(F) ==
    /\ file \in F
    /\ pc = "start"
    /\ visits = <<>>
    /\ current = 0
    /\ rec = PyNone
    /\ printed = [notFound |-> FALSE, skipped |-> <<>>]
    /\ trav = [t \in Travs |-> Idle]
    /\ loaded = <<>>
    /\ added = <<>>
    /\ op = "none"
    /\ result = Outcome("none", PyNone, PyNone)
    /\ pre = [visits |-> <<>>, current |-> 0]
    /\ saveFailed = FALSE

\* collection = VisitCollection.from_csv('data.csv')
FromCsv ==
    /\ pc = "start"
    /\ LET r == from_csv(file)
       IN  /\ pc' = IF r.err = "none" THEN "ready" ELSE "raised"
           /\ visits' = r.visits
           /\ current' = r.current
           /\ printed' = [notFound |-> r.notFound, skipped |-> r.skipped]
           /\ loaded' = r.visits
           /\ result' = Outcome(r.err, PyNone, PyNone)
    /\ op' = "from_csv"
    /\ pre' = Snapshot
    /\ UNCHANGED <<file, rec, trav, added, saveFailed>>

\* visit = BankVisit(vid, full_name, date, visit_type); when it raises the
\* caller keeps the record it held
Construct(vid, full_name, date, visit_type) ==
    /\ pc = "ready"
    /\ LET r == BankVisit(vid, full_name, date, visit_type)
       IN  rec' = IF r.err = "none" THEN r.obj ELSE rec
    /\ UNCHANGED <<file, pc, visits, current, printed, trav, loaded, added, op,
                   result, pre, saveFailed>>

\* visit.<name> = value; when it raises the attribute keeps its value
Assign(name, value) ==
    /\ pc = "ready"
    /\ rec # PyNone
    /\ LET r == setattr(rec, name, value)
       IN  rec' = r.obj
    /\ UNCHANGED <<file, pc, visits, current, printed, trav, loaded, added, op,
                   result, pre, saveFailed>>

\* add appending before its type check
AddUnchecked(x) ==
    /\ pc = "ready"
    /\ Len(visits) < MaxVisits
    /\ visits' = Append(visits, x)
    /\ result' = Outcome(add(visits, x).err, PyNone, x)
    /\ added' = IF add(visits, x).err = "none" THEN Append(added, x) ELSE added
    /\ rec' = IF x = rec THEN PyNone ELSE rec
    /\ op' = "add"
    /\ pre' = Snapshot
    /\ UNCHANGED <<file, pc, current, printed, trav, loaded, saveFailed>>

\* collection.add(x); the caller lets go of a record it has added
Add(x) ==
    /\ pc = "ready"
    /\ Len(visits) < MaxVisits
    /\ LET r == add(visits, x)
       IN  /\ visits' = r.visits
           /\ result' = Outcome(r.err, PyNone, x)
           /\ added' = IF r.err = "none" THEN Append(added, x) ELSE added
           /\ rec' = IF r.err = "none" /\ x = rec THEN PyNone ELSE rec
    /\ op' = "add"
    /\ pre' = Snapshot
    /\ UNCHANGED <<file, pc, current, printed, trav, loaded, saveFailed>>

\* collection[index]
GetItem(index) ==
    /\ pc = "ready"
    /\ LET r == getitem(visits, index)
       IN  result' = Outcome(r.err, r.value, PyInt(index))
    /\ op' = "getitem"
    /\ pre' = Snapshot
    /\ UNCHANGED <<file, pc, visits, current, rec, printed, trav, loaded, added,
                   saveFailed>>

\* save_csv looping over the collection itself (for visit in self), which
\* moves the cursor to the end and back to 0
SaveCsvViaCursor(ioFail) ==
    /\ pc = "ready"
    /\ LET r == save_csv(SubSeq(visits, current + 1, Len(visits)), file, ioFail)
       IN  /\ file' = r.file
           /\ result' = Outcome(r.err, PyNone, PyInt(ioFail))
           /\ saveFailed' = (saveFailed \/ r.err # "none")
           /\ current' = IF r.err = "none" THEN 0 ELSE current
    /\ op' = "save_csv"
    /\ pre' = Snapshot
    /\ UNCHANGED <<pc, visits, rec, printed, trav, loaded, added>>

\* collection.save_csv('data.csv'), with the I/O fault ioFail
SaveCsv(ioFail) ==
    /\ pc = "ready"
    /\ LET r == save_csv(visits, file, ioFail)
       IN  /\ file' = r.file
           /\ result' = Outcome(r.err, PyNone, PyInt(ioFail))
           /\ saveFailed' = (saveFailed \/ r.err # "none")
    /\ op' = "save_csv"
    /\ pre' = Snapshot
    /\ UNCHANGED <<pc, visits, current, rec, printed, trav, loaded, added>>

\* traversal t begins: iter(collection) returns the collection itself.
\* fresh tells whether the cursor stands at 0 then, alone whether no other
\* traversal is in progress (it stops being so when another one asks for a
\* record).
Iter(t) ==
    /\ pc = "ready"
    /\ trav[t].st # "active"
    /\ trav' = [trav EXCEPT
                  ![t] = [st |-> "active", fresh |-> (current = 0), got |-> <<>>,
                          complete |-> FALSE,
                          alone |-> \A u \in Travs \ {t} : trav[u].st # "active"]]
    /\ op' = "iter"
    /\ result' = Outcome("none", PyNone, PyNone)
    /\ pre' = Snapshot
    /\ UNCHANGED <<file, pc, visits, current, rec, printed, loaded, added, saveFailed>>

\* traversal t asks for its next record: next(collection).  got collects the
\* positions of the records it was given; StopIteration ends the traversal,
\* and complete then tells whether it was given every record once, in order.
NextStep(t) ==
    /\ pc = "ready"
    /\ trav[t].st = "active"
    /\ Len(trav[t].got) < MaxYield
    /\ LET r == next(visits, current)
       IN  /\ current' = r.current
           /\ result' = Outcome(r.err, r.value, PyNone)
           /\ trav' = [u \in Travs |->
                         IF u = t
                         THEN IF r.err = "StopIteration"
                              THEN [trav[t] EXCEPT
                                      !.st = "done", !.got = <<>>,
                                      !.complete =
                                          (trav[t].got = Positions(Len(visits)))]
                              ELSE [trav[t] EXCEPT !.got = Append(@, r.current)]
                         ELSE IF trav[u].st = "active"
                              THEN [trav[u] EXCEPT !.alone = FALSE]
                              ELSE trav[u]]
    /\ op' = "next"
    /\ pre' = Snapshot
    /\ UNCHANGED <<file, pc, visits, rec, printed, loaded, added, saveFailed>>

\* traversal t is abandoned: break
Break(t) ==
    /\ pc = "ready"
    /\ trav[t].st = "active"
    /\ trav' = [trav EXCEPT ![t] = Idle]
    /\ op' = "break"
    /\ result' = Outcome("none", PyNone, PyNone)
    /\ pre' = Snapshot
    /\ UNCHANGED <<file, pc, visits, current, rec, printed, loaded, added, saveFailed>>

(***************************************************************************)
(* Spec: the session of the menu (load, construct, assign, add, save)      *)
(* over every file, on a disk that does not fail.                          *)
(***************************************************************************)
Init == InitWith(Files)

Next ==
    \/ FromCsv
    \/ \E vid \in VidPool, full_name \in NamePool, date \in DatePool,
          visit_type \in TypePool : Construct(vid, full_name, date, visit_type)
    \/ \E a \in AssignPool : Assign(a[1], a[2])
    \/ \E x \in {rec} \cup NonVisitPool : Add(x)
    \/ SaveCsv(0)

Spec == Init /\ [][Next]_vars

(***************************************************************************)
(* SpecStore: every operation of the store, one loop over it at a time,    *)
(* on a disk that may fail, over files of plain rows.                      *)
(***************************************************************************)
InitStore == InitWith(PlainFiles)

NextStore ==
    \/ FromCsv
    \/ Construct(PyInt(1), PyStr(<<"A">>), PyStr(DateCanonical), PyStr(<<"D">>))
    \/ \E x \in {rec} \cup NonVisitPool : Add(x)
    \/ \E index \in (0 - Len(visits) - 1)..(Len(visits) + 1) : GetItem(index)
    \/ \E ioFail \in 0..(Len(visits) + 2) : SaveCsv(ioFail)
    \/ Iter(1)
    \/ NextStep(1)
    \/ Break(1)

SpecStore == InitStore /\ [][NextStore]_vars

(***************************************************************************)
(* SpecTraversal: a caller with two loops over the store in progress.      *)
(***************************************************************************)
InitTraversal == InitWith(PlainFiles)

NextTraversal ==
    \/ FromCsv
    \/ Construct(PyInt(1), PyStr(<<"A">>), PyStr(DateCanonical), PyStr(<<"D">>))
    \/ Add(rec)
    \/ \E t \in Travs : Iter(t)
    \/ \E t \in Travs : NextStep(t)
    \/ \E t \in Travs : Break(t)

SpecTraversal == InitTraversal /\ [][NextTraversal]_vars

(***************************************************************************)
(* Properties.                                                             *)
(***************************************************************************)
Range(q) == {q[i] : i \in 1..Len(q)}

\* a row the file format calls well-formed: four columns or more, an integer
\* id, a date strptime accepts
WellFormedRow(row) ==
    /\ Len(row) >= 4
    /\ ParseInt(row[1]).ok
    /\ parse_date(row[3]).ok

\* the records of the well-formed rows of rows, in file order
RECURSIVE WellFormedVisits(_)
WellFormedVisits(rows) ==
    IF rows = <<>> THEN <<>>
    ELSE IF WellFormedRow(Head(rows))
    THEN <<RowVisit("ok", Head(rows)).obj>> \o WellFormedVisits(Tail(rows))
    ELSE WellFormedVisits(Tail(rows))

\* the rows with fields that are not well-formed, in file order
RECURSIVE MalformedRows(_)
MalformedRows(rows) ==
    IF rows = <<>> THEN <<>>
    ELSE IF Head(rows) # <<>> /\ ~WellFormedRow(Head(rows))
    THEN <<Head(rows)>> \o MalformedRows(Tail(rows))
    ELSE MalformedRows(Tail(rows))

\* C1: from_csv on a file with the correct header raises nothing, returns a
\* store of exactly the well-formed rows in file order, and prints every
\* malformed row (bad id, bad date, fewer than four columns).
C1_MalformedRowsSkipped ==
    (op = "from_csv" /\ file.header = "ok") =>
        /\ result.err = "none"
        /\ visits = WellFormedVisits(file.rows)
        /\ printed.skipped = MalformedRows(file.rows)

\* two records equal in id, name and visit type, and in timestamp to the minute
SameFields(a, b) ==
    /\ a.vid = b.vid
    /\ a.full_name = b.full_name
    /\ a.visit_type = b.visit_type
    /\ a.date.t = "datetime"
    /\ b.date.t = "datetime"
    /\ [a.date EXCEPT !.sec = 0] = [b.date EXCEPT !.sec = 0]

SameRecords(p, q) ==
    /\ Len(p) = Len(q)
    /\ \A i \in 1..Len(p) : SameFields(p[i], q[i])

\* C2: save_csv of a store reached by from_csv and adds succeeds, and
\* from_csv of the file it wrote returns as many records, in the same order,
\* each equal in its four fields (the timestamp to the minute).
C2_SaveReloadRoundTrip ==
    op = "save_csv" =>
        /\ result.err = "none"
        /\ from_csv(file).err = "none"
        /\ SameRecords(from_csv(file).visits, visits)

\* C3: a traversal that runs with no other traversal in progress is given
\* the records from the first one on, in insertion order, and all of them
\* once by the time it ends, whatever traversals came before it.
C3_TraversalRestartable ==
    \A t \in Travs :
        trav[t].alone =>
            /\ trav[t].st = "active" => trav[t].got = Positions(Len(trav[t].got))
            /\ trav[t].st = "done" => trav[t].complete

\* C4: every BankVisit, in the store or in the caller's hands, holds an int
\* as vid and a datetime as date.
C4_FieldsResolved ==
    \A v \in Range(visits) \cup ({rec} \ {PyNone}) :
        v.vid.t = "int" /\ v.date.t = "datetime"

\* C5: the store is the loaded records followed by the added ones in call
\* order; an accepted add appends its record and leaves the earlier ones in
\* place; no other operation changes the sequence.
C5_AppendOnly ==
    /\ pc = "ready" => visits = loaded \o added
    /\ (op = "add" /\ result.err = "none") =>
           /\ Len(visits) = Len(pre.visits) + 1
           /\ visits[Len(visits)] = result.arg
           /\ SubSeq(visits, 1, Len(pre.visits)) = pre.visits
    /\ (op = "add" /\ result.err # "none") => visits = pre.visits
    /\ op \in {"getitem", "iter", "next", "break", "save_csv"} =>
           visits = pre.visits

\* a store of loaded and added records, two of the added ones with one id,
\* after it was saved and while a traversal has just been given a record
C5_Witness ==
    /\ Len(loaded) >= 1
    /\ Len(added) >= 2
    /\ added[1].vid = added[2].vid
    /\ file.exists /\ Len(file.rows) >= 2
    /\ op = "next" /\ result.err = "none"

\* C6: add of a value that is no BankVisit raises TypeError and leaves the
\* records and the cursor as they were.
C6_AddRejectsNonRecord ==
    (op = "add" /\ result.arg.t # "BankVisit") =>
        /\ result.err = "TypeError"
        /\ visits = pre.visits
        /\ current = pre.current

\* a rejected add on a store with records whose cursor is under way
C6_Witness ==
    /\ op = "add"
    /\ result.err = "TypeError"
    /\ Len(visits) >= 2
    /\ current >= 1

\* C7 as stated: store[i] is record i for 0 <= i < count and an out-of-range
\* error for every other index.
C7_OutsideRangeFails ==
    op = "getitem" =>
        IF result.arg.n >= 0 /\ result.arg.n < Len(visits)
        THEN result.err = "none" /\ result.value = visits[result.arg.n + 1]
        ELSE result.err = "IndexError"

\* C7 as amended: store[i] is record i for 0 <= i < count, record count + i
\* for -count <= i < 0, and an out-of-range error for i >= count and for
\* i < -count.
C7_PositionalAccess ==
    op = "getitem" =>
        LET i == result.arg.n
            n == Len(visits)
        IN  /\ (i >= 0 /\ i < n) =>
                   result.err = "none" /\ result.value = visits[i + 1]
            /\ (i < 0 /\ i >= 0 - n) =>
                   result.err = "none" /\ result.value = visits[n + i + 1]
            /\ (i >= n \/ i < 0 - n) => result.err = "IndexError"

\* store[-1] has returned the last of several records
C7_Witness ==
    /\ op = "getitem"
    /\ result.arg.n = 0 - 1
    /\ Len(visits) >= 2
    /\ result.err = "none"
    /\ result.value = visits[Len(visits)]

\* the file a save_csv that succeeds leaves for the records q
FullFile(q) ==
    [exists |-> TRUE, header |-> "ok",
     rows |-> [i \in 1..Len(q) |-> FormatRow(q[i]).row]]

\* C8: from_csv of a path that does not exist raises nothing and returns an
\* empty store with the cursor at 0; the store then holds what is added to
\* it, and a save_csv that succeeds writes those records.
C8_MissingFileEmptyStore ==
    /\ (op = "from_csv" /\ ~file.exists) =>
           /\ result.err = "none"
           /\ pc = "ready"
           /\ printed.notFound
           /\ visits = <<>>
           /\ current = 0
    /\ printed.notFound =>
           /\ loaded = <<>>
           /\ visits = added
           /\ (op = "save_csv" /\ result.err = "none") => file = FullFile(added)

\* a store loaded from a missing path, added to and saved
C8_Witness ==
    /\ printed.notFound
    /\ Len(visits) >= 1
    /\ op = "save_csv"
    /\ result.err = "none"
    /\ file.exists

\* C9: save_csv leaves the records and the cursor as they were, whether it
\* succeeds or an I/O error ends it at open, at the header or at a row; the
\* error reaches the caller; a save_csv that succeeds, after failed ones
\* too, leaves a file of all the records.
C9_SaveLeavesStoreIntact ==
    op = "save_csv" =>
        /\ visits = pre.visits
        /\ current = pre.current
        /\ pc = "ready"
        /\ result.arg.n # 0 => result.err = "OSError"
        /\ result.err = "none" => file = FullFile(visits)

\* a save_csv that succeeded after one that failed, the cursor under way
C9_Witness ==
    /\ op = "save_csv"
    /\ result.err = "none"
    /\ saveFailed
    /\ Len(visits) >= 2
    /\ current >= 1

\* C10: a traversal that begins with the cursor at 0 is given the records
\* from the first one on, in insertion order, and all of them once by the
\* time it ends, also while another traversal is in progress.
C10_TraversalsIndependent ==
    \A t \in Travs :
        trav[t].fresh =>
            /\ trav[t].st = "active" => trav[t].got = Positions(Len(trav[t].got))
            /\ trav[t].st = "done" => trav[t].complete

=============================================================================
